---- MODULE Spec2Model ----
(***************************************************************************)
(* Model of package tree (iac-factory/go-example-cli, internal/fs/tree):   *)
(* the construction of the node tree by New/walk/add, the content cache of *)
(* Contents/read, and the three mirror operations Copy, Replicate and      *)
(* Replace, all run against a small file system.                           *)
(*                                                                         *)
(* Pointers are indices into the sequence `nodes` (0 is the nil pointer);  *)
(* Go maps are reference values, so a node's `table` field is an index     *)
(* into the sequence `tables`.  A nil slice or pointer is the empty tuple  *)
(* None and a non-nil value v is the one-element tuple Some(v).            *)
(***************************************************************************)
EXTENDS Integers, Sequences, FiniteSets, TLC

VARIABLES
    disk,    \* the host file system: path -> entry
    pc,      \* "init", "building", "built" or "panicked"
    nodes,   \* the allocated Node values, indexed by pointer
    tables,  \* the allocated map[string]*Node values, indexed by reference
    stack,   \* the call stack of walk/add during New
    op,      \* the mirror operation in progress, or the one that last returned
    ret,     \* the result of the last direct call of Contents
    reads,   \* per node, the number of os.ReadFile calls made by read()
    ops,     \* the number of calls made on the built tree so far
    envs     \* the number of changes other programs made to the source files

vars == <<disk, pc, nodes, tables, stack, op, ret, reads, ops, envs>>

\* ------------------------------------------------------------------ bounds

MaxOps == 2
MaxEnv == 1

\* ------------------------------------------------------------ Go constants

File == "FILE"
Directory == "DIRECTORY"
Symbolic == "SYMBOLIC"

None == <<>>
Some(v) == <<v>>

\* ------------------------------------------------------------------- paths

\* A path is the sequence of its components.
R == <<"r">>
T == <<"t">>
D == <<"t", "d">>

Join(a, b) == a \o b
Dir(p) == SubSeq(p, 1, Len(p) - 1)
Base(p) == p[Len(p)]

SrcPaths ==
    { R, Join(R, <<"a">>), Join(R, <<"b">>), Join(R, <<"b", "c">>),
      Join(R, <<"b", "c", "e">>), Join(R, <<"z">>) }

DestPaths ==
    { T, D, Join(D, <<"x">>), Join(D, <<"r", "y">>) } \cup { Join(D, p) : p \in SrcPaths }

Paths == SrcPaths \cup DestPaths

\* os.ReadDir returns the entries sorted by file name.
NameOrder == <<"a", "b", "c", "e", "z">>

\* ------------------------------------------------------------ file system

\* Permission bits, by what they allow: nothing, reading, reading and writing.
Modes == {"none", "ro", "rw"}

NoEnt == [kind |-> "none", bytes |-> <<>>, mode |-> "none", to |-> <<>>]
FileEnt(b, m) == [kind |-> "file", bytes |-> b, mode |-> m, to |-> <<>>]
DirEnt(m) == [kind |-> "dir", bytes |-> <<>>, mode |-> m, to |-> <<>>]
LinkEnt(t) == [kind |-> "link", bytes |-> <<>>, mode |-> "rw", to |-> t]

RECURSIVE StatFrom(_, _, _)
\* The path walk of stat(2): every proper prefix must be a searchable directory.
StatFrom(dk, p, i) ==
    IF i = Len(p)
    THEN IF dk[p].kind = "none" THEN "ENOENT" ELSE "ok"
    ELSE LET a == SubSeq(p, 1, i) IN
         IF dk[a].kind = "none" THEN "ENOENT"
         ELSE IF dk[a].kind # "dir" THEN "ENOTDIR"
         ELSE IF dk[a].mode = "none" THEN "EACCES"
         ELSE StatFrom(dk, p, i + 1)

Stat(dk, p) == StatFrom(dk, p, 1)

\* os.ReadDir: the names in the directory, sorted, or an error.
ReadDir(dk, p) ==
    IF Stat(dk, p) = "ok" /\ dk[p].kind = "dir" /\ dk[p].mode # "none"
    THEN [ok |-> TRUE,
          names |-> SelectSeq(NameOrder,
                      LAMBDA nm : Join(p, <<nm>>) \in Paths
                                  /\ dk[Join(p, <<nm>>)].kind # "none")]
    ELSE [ok |-> FALSE, names |-> <<>>]

\* os.ReadFile: the whole content as a non-nil slice, or an error.
ReadFile(dk, p) ==
    IF Stat(dk, p) = "ok" /\ dk[p].kind = "file" /\ dk[p].mode # "none"
    THEN [ok |-> TRUE, bytes |-> dk[p].bytes]
    ELSE [ok |-> FALSE, bytes |-> <<>>]

\* checksum.SHA256: the digest of the file's bytes; it panics when the file
\* cannot be opened.  The digest is kept symbolic and collision free.
SHA256(dk, p) ==
    LET r == ReadFile(dk, p) IN
    [ok |-> r.ok, sum |-> <<"sha256", r.bytes>>]

\* ------------------------------------------------------------------- nodes

RECURSIVE Root(_, _)
Root(ns, n) ==
    IF ns[n].parent = 0 THEN n ELSE Root(ns, ns[n].parent)

Ids == 1 .. Len(nodes)

\* Node.Table and Node.Map return map references.
Table(ns, n) == ns[n].table
Map(ns, n) == ns[Root(ns, n)].table

Range(f) == { f[k] : k \in DOMAIN f }

Files(ns, tbs, n) == { c \in Range(tbs[Table(ns, n)]) : ns[c].Type = File }
Directories(ns, tbs, n) == { c \in Range(tbs[Table(ns, n)]) : ns[c].Type = Directory }

\* if _, valid := t[key]; !(valid) { t[key] = child }
Put(t, key, id) ==
    IF key \in DOMAIN t THEN t ELSE [k \in DOMAIN t \cup {key} |-> IF k = key THEN id ELSE t[k]]

EmptyTable == [k \in {} |-> 0]

\* The type tag walk gives an entry: the symbolic-link bit is tested first.
Classify(ent) ==
    IF ent.kind = "link" THEN Symbolic
    ELSE IF ent.kind = "dir" THEN Directory
    ELSE File

\* The Node literal of walk, with the three fields add sets before it recurses.
NewChild(ns, n, name, ent) ==
    [parent |-> n,
     table |-> Len(ns) + 1,
     depth |-> ns[n].depth + 1,
     content |-> None,
     Path |-> Join(ns[n].Path, <<name>>),
     Dirname |-> Dir(Join(ns[n].Path, <<name>>)),
     Name |-> name,
     Type |-> Classify(ent),
     Checksum |-> None,
     Nodes |-> <<>>]

ChecksumForAnyLeaf(type, sum) ==
    IF type # Directory THEN Some(sum) ELSE None

\* add: only a File gets a checksum.
ChecksumFor(type, sum) ==
    IF type = File THEN Some(sum) ELSE None

RegisterTablesLocalOnly(ns, tbs, n, c) ==
    [tbs EXCEPT ![ns[n].table] = Put(@, ns[c].Path, c)]

\* The tail of add: the root's index, then n's own index.
RegisterTables(ns, tbs, n, c) ==
    LET rt == ns[Root(ns, n)].table
        t1 == [tbs EXCEPT ![rt] = Put(@, ns[c].Path, c)]
        nt == ns[n].table
    IN  [t1 EXCEPT ![nt] = Put(@, ns[c].Path, c)]

\* n.Nodes = append(n.Nodes, *child): a value copy of the child as it is now.
RegisterNodes(ns, n, c) ==
    [ns EXCEPT ![n].Nodes = Append(@, ns[c])]

AddEnterRegistered(ns, tbs, n, c) ==
    Append(RegisterTables(ns, tbs, n, c), EmptyTable)

\* The head of add for a Directory child: the child gets its own empty map
\* and nothing is registered before child.walk() has returned.
AddEnter(ns, tbs, n, c) ==
    Append(tbs, EmptyTable)

WalkListPanics(ok) ==
    IF ok THEN "loop" ELSE "panic"

\* walk: a listing error is printed and walk returns.
WalkListOutcome(ok) ==
    IF ok THEN "loop" ELSE "return"

\* ------------------------------------------------------------------- build

Top == stack[Len(stack)]

Frame(n, phase, todo, child) ==
    [node |-> n, phase |-> phase, todo |-> todo, child |-> child]

Idle == [mode |-> "idle", node |-> 0, phase |-> "idle", dirs |-> {}, files |-> {}, err |-> FALSE]
NoRet == [node |-> 0, val |-> None, err |-> "none"]

\* The stack after the walk of the top frame has returned: the caller, add,
\* goes on to register the child, or New returns the root.
Returned(stk) ==
    IF Len(stk) = 1 THEN <<>>
    ELSE [SubSeq(stk, 1, Len(stk) - 1) EXCEPT ![Len(stk) - 1].phase = "register"]

\* New up to the call of root.walk().
New ==
    /\ pc = "init"
    /\ IF Stat(disk, R) = "ok" /\ disk[R].kind = "dir"
       THEN /\ nodes' = << [parent |-> 0, table |-> 1, depth |-> 0, content |-> None,
                            Path |-> R, Dirname |-> <<>>, Name |-> Base(R),
                            Type |-> Directory, Checksum |-> None, Nodes |-> <<>>] >>
            /\ tables' = << EmptyTable >>
            /\ stack' = << Frame(1, "list", <<>>, 0) >>
            /\ pc' = "building"
       ELSE /\ pc' = "panicked"
            /\ UNCHANGED <<nodes, tables, stack>>
    /\ UNCHANGED <<disk, op, ret, reads, ops, envs>>

\* walk: os.ReadDir(n.Path).
WalkList ==
    /\ pc = "building"
    /\ Top.phase = "list"
    /\ LET r == ReadDir(disk, nodes[Top.node].Path)
           o == WalkListOutcome(r.ok)
       IN  IF o = "loop"
           THEN /\ stack' = [stack EXCEPT ![Len(stack)].phase = "loop",
                                          ![Len(stack)].todo = r.names]
                /\ pc' = pc
           ELSE IF o = "return"
           THEN /\ stack' = Returned(stack)
                /\ pc' = IF Len(stack) = 1 THEN "built" ELSE pc
           ELSE /\ stack' = stack
                /\ pc' = "panicked"
    /\ UNCHANGED <<disk, nodes, tables, op, ret, reads, ops, envs>>

\* One turn of walk's loop for a File or Symbolic entry: the whole of add.
WalkLeaf ==
    /\ pc = "building"
    /\ Top.phase = "loop"
    /\ Top.todo # <<>>
    /\ LET n == Top.node
           name == Head(Top.todo)
           ent == disk[Join(nodes[n].Path, <<name>>)]
           child == NewChild(nodes, n, name, ent)
           h == SHA256(disk, child.Path)
           c == Len(nodes) + 1
       IN  /\ child.Type # Directory
           /\ IF child.Type = File /\ ~h.ok
              THEN /\ pc' = "panicked"
                   /\ UNCHANGED <<nodes, tables, stack>>
              ELSE LET ns == Append(nodes,
                               [child EXCEPT !.Checksum = ChecksumFor(child.Type, h.sum)])
                       tbs == Append(tables, EmptyTable)
                   IN  /\ nodes' = RegisterNodes(ns, n, c)
                       /\ tables' = RegisterTables(ns, tbs, n, c)
                       /\ stack' = [stack EXCEPT ![Len(stack)].todo = Tail(@)]
                       /\ pc' = pc
    /\ UNCHANGED <<disk, op, ret, reads, ops, envs>>

\* One turn of walk's loop for a Directory entry, up to add's child.walk().
WalkDir ==
    /\ pc = "building"
    /\ Top.phase = "loop"
    /\ Top.todo # <<>>
    /\ LET n == Top.node
           name == Head(Top.todo)
           ent == disk[Join(nodes[n].Path, <<name>>)]
           child == NewChild(nodes, n, name, ent)
           c == Len(nodes) + 1
           ns == Append(nodes, child)
       IN  /\ child.Type = Directory
           /\ nodes' = ns
           /\ tables' = AddEnter(ns, tables, n, c)
           /\ stack' = Append([stack EXCEPT ![Len(stack)].todo = Tail(@),
                                            ![Len(stack)].phase = "add",
                                            ![Len(stack)].child = c],
                              Frame(c, "list", <<>>, 0))
    /\ UNCHANGED <<disk, pc, op, ret, reads, ops, envs>>

\* walk's loop is over: walk returns to add, or to New.
WalkReturn ==
    /\ pc = "building"
    /\ Top.phase = "loop"
    /\ Top.todo = <<>>
    /\ stack' = Returned(stack)
    /\ pc' = IF Len(stack) = 1 THEN "built" ELSE pc
    /\ UNCHANGED <<disk, nodes, tables, op, ret, reads, ops, envs>>

\* add after child.walk() has returned: the indices and the snapshot.
AddRegister ==
    /\ pc = "building"
    /\ Top.phase = "register"
    /\ nodes' = RegisterNodes(nodes, Top.node, Top.child)
    /\ tables' = RegisterTables(nodes, tables, Top.node, Top.child)
    /\ stack' = [stack EXCEPT ![Len(stack)].phase = "loop", ![Len(stack)].child = 0]
    /\ UNCHANGED <<disk, pc, op, ret, reads, ops, envs>>

NextBuild == New \/ WalkList \/ WalkLeaf \/ WalkDir \/ WalkReturn \/ AddRegister

\* ---------------------------------------------------------------- syscalls

Ok(dk) == [ok |-> TRUE, disk |-> dk]
Err(dk) == [ok |-> FALSE, disk |-> dk]

\* mkdir(2): the parent must be a writable directory and p must not exist.
Mkdir(dk, p, perm) ==
    IF /\ Stat(dk, p) = "ENOENT"
       /\ \/ Dir(p) = <<>>
          \/ (dk[Dir(p)].kind = "dir" /\ dk[Dir(p)].mode = "rw")
    THEN Ok([dk EXCEPT ![p] = DirEnt(perm)])
    ELSE Err(dk)

RECURSIVE MkdirAll(_, _, _)
\* os.MkdirAll: nothing to do for an existing directory, an error for an
\* existing non-directory, otherwise the parents first and then p, all with perm.
MkdirAll(dk, p, perm) ==
    IF p = <<>> THEN Ok(dk)
    ELSE IF Stat(dk, p) = "ok"
    THEN (IF dk[p].kind = "dir" THEN Ok(dk) ELSE Err(dk))
    ELSE LET r == MkdirAll(dk, Dir(p), perm) IN
         IF r.ok THEN Mkdir(r.disk, p, perm) ELSE r

\* os.WriteFile: O_WRONLY|O_CREATE|O_TRUNC; perm is used only on creation.
WriteFile(dk, p, b, perm) ==
    LET st == Stat(dk, p) IN
    IF st = "ok"
    THEN (IF dk[p].kind = "file" /\ dk[p].mode = "rw"
          THEN Ok([dk EXCEPT ![p].bytes = b])
          ELSE Err(dk))
    ELSE IF /\ st = "ENOENT"
            /\ Stat(dk, Dir(p)) = "ok"
            /\ dk[Dir(p)].kind = "dir"
            /\ dk[Dir(p)].mode = "rw"
    THEN Ok([dk EXCEPT ![p] = FileEnt(b, perm)])
    ELSE Err(dk)

IsPrefix(a, p) == Len(a) <= Len(p) /\ SubSeq(p, 1, Len(a)) = a

Under(p) == { q \in Paths : IsPrefix(p, q) }

\* os.RemoveAll of an existing path: p and everything under it is unlinked; a
\* directory that holds entries must be writable, and so must p's parent.
\* A failed call is taken to have removed nothing.
RemoveAll(dk, p) ==
    IF /\ dk[Dir(p)].mode = "rw"
       /\ \A q \in Under(p) :
             (dk[q].kind = "dir" /\ \E c \in Under(q) \ {q} : dk[c].kind # "none")
                => dk[q].mode = "rw"
    THEN Ok([q \in Paths |-> IF q \in Under(p) THEN NoEnt ELSE dk[q]])
    ELSE Err(dk)

\* exists: true only when os.Stat succeeds; every error means false.
exists(dk, p) == Stat(dk, p) = "ok"

\* Node.Permissions: the permission bits on disk now; it panics when stat fails.
Permissions(dk, ns, n) ==
    [ok |-> Stat(dk, ns[n].Path) = "ok", perm |-> dk[ns[n].Path].mode]

NeedsReadAlways(content) == TRUE

\* read: the disk is read only while the cache is nil.
NeedsRead(content) == content = None

\* Node.read on a File node: the node's content afterwards, and whether
\* os.ReadFile was called and failed.
Read(dk, ns, n) ==
    IF NeedsRead(ns[n].content)
    THEN LET r == ReadFile(dk, ns[n].Path) IN
         [ok |-> r.ok, called |-> TRUE,
          content |-> IF r.ok THEN Some(r.bytes) ELSE ns[n].content]
    ELSE [ok |-> TRUE, called |-> FALSE, content |-> ns[n].content]

CopyWritesAlways(st) == TRUE

\* Copy writes a file only when os.Stat(target) reports os.ErrNotExist.
CopyWrites(st) == st = "ENOENT"

ReplicateWritesIfAbsent(st) == st = "ENOENT"

\* Replicate and Replace write every file, whatever is at the target.
ReplicateWrites(st) == TRUE

ReplaceWrites(st) == TRUE

Writes(mode, st) ==
    IF mode = "Copy" THEN CopyWrites(st)
    ELSE IF mode = "Replicate" THEN ReplicateWrites(st)
    ELSE ReplaceWrites(st)

\* ------------------------------------------------------------------ mirror

Bytes == { <<>>, <<1>>, <<2>> }

Callable == pc = "built" /\ op.phase \in {"idle", "returned"} /\ ops < MaxOps

Start(mode, n, phase) ==
    /\ Callable
    /\ op' = [mode |-> mode, node |-> n, phase |-> phase,
              dirs |-> Directories(nodes, tables, n),
              files |-> Files(nodes, tables, n), err |-> FALSE]
    /\ ops' = ops + 1
    /\ UNCHANGED <<disk, pc, nodes, tables, stack, ret, reads, envs>>

Copy == \E n \in Ids : Start("Copy", n, "run")

Replicate == \E n \in Ids : Start("Replicate", n, "run")

Replace == \E n \in Ids : Start("Replace", n, "remove")

Panic ==
    /\ pc' = "panicked"
    /\ op' = [op EXCEPT !.err = TRUE]

\* Replace: if exists(destination) { os.RemoveAll(destination) }.
ReplaceRemove ==
    /\ pc = "built"
    /\ op.phase = "remove"
    /\ IF exists(disk, D)
       THEN LET r == RemoveAll(disk, D) IN
            IF r.ok
            THEN /\ disk' = r.disk
                 /\ op' = [op EXCEPT !.phase = "run"]
                 /\ pc' = pc
            ELSE /\ disk' = disk
                 /\ Panic
       ELSE /\ disk' = disk
            /\ op' = [op EXCEPT !.phase = "run",
                                !.err = Stat(disk, D) # "ENOENT"]
            /\ pc' = pc
    /\ UNCHANGED <<nodes, tables, stack, ret, reads, ops, envs>>

\* One turn of the directory loop; Go ranges over the map in any order.
MirrorDirectory ==
    /\ pc = "built"
    /\ op.phase = "run"
    /\ \E d \in op.dirs :
          LET target == Join(D, nodes[d].Path)
              perm == Permissions(disk, nodes, d)
              r == MkdirAll(disk, target, perm.perm)
          IN  IF perm.ok /\ r.ok
              THEN /\ disk' = r.disk
                   /\ op' = [op EXCEPT !.dirs = @ \ {d}]
                   /\ pc' = pc
              ELSE /\ disk' = (IF perm.ok THEN r.disk ELSE disk)
                   /\ Panic
    /\ UNCHANGED <<nodes, tables, stack, ret, reads, ops, envs>>

\* One turn of the file loop, after the directory loop is over.
MirrorFile ==
    /\ pc = "built"
    /\ op.phase = "run"
    /\ op.dirs = {}
    /\ \E f \in op.files :
          LET target == Join(D, nodes[f].Path)
              st == Stat(disk, target)
              rd == Read(disk, nodes, f)
              perm == Permissions(disk, nodes, f)
              w == WriteFile(disk, target, rd.content[1], perm.perm)
          IN  IF ~Writes(op.mode, IF op.mode = "Copy" THEN st ELSE "unchecked")
              THEN /\ op' = [op EXCEPT !.files = @ \ {f},
                                       !.err = @ \/ st \notin {"ok", "ENOENT"}]
                   /\ UNCHANGED <<disk, pc, nodes, reads>>
              ELSE /\ nodes' = [nodes EXCEPT ![f].content = rd.content]
                   /\ reads' = [reads EXCEPT ![f] = IF rd.called THEN @ + 1 ELSE @]
                   /\ IF rd.ok /\ perm.ok /\ w.ok
                      THEN /\ disk' = w.disk
                           /\ op' = [op EXCEPT !.files = @ \ {f}]
                           /\ pc' = pc
                      ELSE /\ disk' = disk
                           /\ Panic
    /\ UNCHANGED <<tables, stack, ret, ops, envs>>

MirrorReturn ==
    /\ pc = "built"
    /\ op.phase = "run"
    /\ op.dirs = {}
    /\ op.files = {}
    /\ op' = [op EXCEPT !.phase = "returned"]
    /\ UNCHANGED <<disk, pc, nodes, tables, stack, ret, reads, ops, envs>>

\* A direct call of Node.Contents on a node of the tree.
Contents ==
    /\ Callable
    /\ \E n \in Ids :
          IF nodes[n].Type # File
          THEN /\ ret' = [node |-> n, val |-> None, err |-> "invalid file node"]
               /\ UNCHANGED <<pc, nodes, reads>>
          ELSE LET rd == Read(disk, nodes, n) IN
               /\ nodes' = [nodes EXCEPT ![n].content = rd.content]
               /\ reads' = [reads EXCEPT ![n] = IF rd.called THEN @ + 1 ELSE @]
               /\ IF rd.ok
                  THEN /\ ret' = [node |-> n, val |-> rd.content, err |-> "none"]
                       /\ pc' = pc
                  ELSE /\ ret' = ret
                       /\ pc' = "panicked"
    /\ ops' = ops + 1
    /\ UNCHANGED <<disk, tables, stack, op, envs>>

\* Another program rewrites or removes a source file between two calls.
EnvTouch ==
    /\ pc = "built"
    /\ op.phase \in {"idle", "returned"}
    /\ envs < MaxEnv
    /\ \E p \in SrcPaths :
          /\ disk[p].kind = "file"
          /\ \E e \in { FileEnt(b, disk[p].mode) : b \in Bytes } \cup { NoEnt } :
                /\ e # disk[p]
                /\ disk' = [disk EXCEPT ![p] = e]
    /\ envs' = envs + 1
    /\ op' = Idle
    /\ ret' = NoRet
    /\ UNCHANGED <<pc, nodes, tables, stack, reads, ops>>

Next ==
    \/ NextBuild
    \/ Copy \/ Replicate \/ Replace
    \/ ReplaceRemove \/ MirrorDirectory \/ MirrorFile \/ MirrorReturn
    \/ Contents
    \/ EnvTouch

\* ------------------------------------------------------------ initial disks

DestImage(name) ==
    [p \in DestPaths |->
        IF name = "absent" THEN (IF p = T THEN DirEnt("rw") ELSE NoEnt)
        ELSE IF name = "notdir" THEN (IF p = T THEN FileEnt(<<9>>, "rw") ELSE NoEnt)
        ELSE \* "populated"
             IF p \in {T, D, Join(D, R), Join(D, Join(R, <<"b">>))} THEN DirEnt("rw")
             ELSE IF p \in {Join(D, <<"x">>), Join(D, <<"r", "y">>), Join(D, Join(R, <<"a">>))}
             THEN FileEnt(<<9>>, "rw")
             ELSE IF p = Join(D, Join(R, <<"z">>)) THEN FileEnt(<<9>>, "ro")
             ELSE NoEnt]

SrcImage(er, ea, eb, ec, ee, ez) ==
    [p \in SrcPaths |->
        IF p = R THEN er
        ELSE IF p = Join(R, <<"a">>) THEN ea
        ELSE IF p = Join(R, <<"b">>) THEN eb
        ELSE IF p = Join(R, <<"b", "c">>) THEN ec
        ELSE IF p = Join(R, <<"b", "c", "e">>) THEN ee
        ELSE ez]

\* An entry exists only inside a directory.
WellFormed(img) ==
    \A p \in SrcPaths \ {R} : img[p].kind # "none" => img[Dir(p)].kind = "dir"

InitWith(SR, SA, SB, SC, SE, SZ, DL) ==
    /\ \E er \in SR, ea \in SA, eb \in SB, ec \in SC, ee \in SE, ez \in SZ, dl \in DL :
          LET src == SrcImage(er, ea, eb, ec, ee, ez) IN
          /\ WellFormed(src)
          /\ disk = [p \in Paths |-> IF p \in SrcPaths THEN src[p] ELSE DestImage(dl)[p]]
    /\ pc = "init"
    /\ nodes = <<>>
    /\ tables = <<>>
    /\ stack = <<>>
    /\ op = Idle
    /\ ret = NoRet
    /\ reads = [i \in 1 .. Cardinality(SrcPaths) |-> 0]
    /\ ops = 0
    /\ envs = 0

InitBuild ==
    InitWith({DirEnt("rw"), DirEnt("none"), FileEnt(<<1>>, "rw"), NoEnt},
             {NoEnt, FileEnt(<<1>>, "rw"), LinkEnt(Join(R, <<"b">>)), LinkEnt(Join(R, <<"z">>))},
             {NoEnt, DirEnt("rw"), DirEnt("none"), FileEnt(<<2>>, "rw")},
             {NoEnt, FileEnt(<<2>>, "rw"), DirEnt("rw"), DirEnt("none"), LinkEnt(R)},
             {NoEnt, FileEnt(<<1>>, "rw")},
             {NoEnt, FileEnt(<<>>, "rw"), FileEnt(<<1>>, "none"), DirEnt("rw")},
             {"absent"})

SpecBuild == InitBuild /\ [][NextBuild]_vars

Init ==
    InitWith({DirEnt("rw")},
             {NoEnt, FileEnt(<<1>>, "rw")},
             {NoEnt, DirEnt("rw")},
             {NoEnt, FileEnt(<<2>>, "rw"), DirEnt("rw")},
             {NoEnt},
             {NoEnt, FileEnt(<<>>, "rw")},
             {"absent", "populated", "notdir"})

Spec == Init /\ [][Next]_vars

\* ================================================================== claims

Children(n) == { c \in Ids : nodes[c].parent = n }

Target(c) == Join(D, nodes[c].Path)

HasReturned(mode) == pc = "built" /\ op.mode = mode /\ op.phase = "returned"

\* The entries of directory p as the disk holds them, in listing order, with
\* the type and digest each must get; an unlistable directory shows none.
RECURSIVE DiskTree(_, _)
DiskTree(dk, p) ==
    LET names == ReadDir(dk, p).names IN
    [i \in 1 .. Len(names) |->
        LET q == Join(p, <<names[i]>>) IN
        [Path |-> q,
         Type |-> IF dk[q].kind = "link" THEN Symbolic
                  ELSE IF dk[q].kind = "dir" THEN Directory ELSE File,
         Checksum |-> IF dk[q].kind = "file" THEN Some(<<"sha256", dk[q].bytes>>) ELSE None,
         Nodes |-> IF dk[q].kind = "dir" THEN DiskTree(dk, q) ELSE <<>>]]

\* The serialized fields of a snapshot sequence.
RECURSIVE Proj(_)
Proj(snaps) ==
    [i \in 1 .. Len(snaps) |->
        [Path |-> snaps[i].Path, Type |-> snaps[i].Type,
         Checksum |-> snaps[i].Checksum, Nodes |-> Proj(snaps[i].Nodes)]]

\* Every value copy nested in a snapshot sequence.
RECURSIVE AllSnaps(_)
AllSnaps(snaps) ==
    UNION { {snaps[i]} \cup AllSnaps(snaps[i].Nodes) : i \in 1 .. Len(snaps) }

\* C1: after New returns, the local index of every node, the root included,
\* and so Files() and Directories(), hold only nodes whose parent is that node.
C1_TablesHoldDirectChildren ==
    pc = "built" =>
        \A n \in Ids :
            /\ \A c \in Range(tables[Table(nodes, n)]) : nodes[c].parent = n
            /\ \A c \in Files(nodes, tables, n) \cup Directories(nodes, tables, n) :
                  nodes[c].depth = nodes[n].depth + 1

\* C2: when Replace returns, the destination holds exactly the files and
\* directories that are direct children of the node (and the path components
\* leading to them), the files with the source's bytes; all else is gone.
C2_ReplaceMirrorsDirectChildren ==
    HasReturned("Replace") =>
        LET kids == { c \in Children(op.node) : nodes[c].Type \in {File, Directory} }
            targets == { Target(c) : c \in kids }
        IN  /\ \A c \in kids :
                  IF nodes[c].Type = Directory
                  THEN disk[Target(c)].kind = "dir"
                  ELSE /\ disk[Target(c)].kind = "file"
                       /\ disk[Target(c)].bytes = disk[nodes[c].Path].bytes
            /\ \A p \in Under(D) :
                  disk[p].kind # "none" => \E t \in targets : IsPrefix(p, t)

\* C3: no step of Copy changes a path of the destination that exists; what it
\* creates or writes was absent when it was checked.
C3_CopyKeepsExisting ==
    [][ (pc = "built" /\ op.mode = "Copy" /\ op.phase = "run") =>
            \A p \in DestPaths :
                disk'[p] # disk[p] => (disk[p].kind = "none" /\ Stat(disk, p) = "ENOENT") ]_vars

\* Copy has returned, one file of the node was already at the destination
\* with other bytes and is still as it was, and another was absent and is written.
C3_Witness ==
    /\ HasReturned("Copy")
    /\ \E f, g \in Files(nodes, tables, op.node) :
          /\ disk[Target(f)] = FileEnt(<<9>>, "rw")
          /\ disk[nodes[f].Path].bytes # <<9>>
          /\ disk[Target(g)].kind = "file"
          /\ nodes[g].content = Some(disk[Target(g)].bytes)

\* C4 as stated: when Replicate returns, every File child's destination file
\* holds the bytes the source file holds on disk.
C4_ReplicateWritesSourceBytes ==
    HasReturned("Replicate") =>
        \A f \in Children(op.node) :
            nodes[f].Type = File =>
                /\ disk[Target(f)].kind = "file"
                /\ disk[Target(f)].bytes = disk[nodes[f].Path].bytes

\* C4 as amended: when Replicate returns, every File child's destination file
\* holds the node's cached content, which is the source's content on disk as
\* long as no other program has changed the source files.
C4_ReplicateWritesCachedBytes ==
    HasReturned("Replicate") =>
        \A f \in Children(op.node) :
            nodes[f].Type = File =>
                /\ disk[Target(f)].kind = "file"
                /\ nodes[f].content = Some(disk[Target(f)].bytes)
                /\ envs = 0 => disk[Target(f)].bytes = disk[nodes[f].Path].bytes

\* Replicate has returned after the source of a File child changed on disk:
\* the destination holds the cached bytes, not the bytes on disk.
C4_Witness ==
    /\ HasReturned("Replicate")
    /\ \E f \in Children(op.node) :
          /\ nodes[f].Type = File
          /\ nodes[f].content = Some(disk[Target(f)].bytes)
          /\ disk[nodes[f].Path].kind = "file"
          /\ disk[Target(f)].bytes # disk[nodes[f].Path].bytes

\* C5: a mirror operation that met a file-system error has panicked.
C5_ErrorsAbort ==
    op.err => pc = "panicked"

\* C6: a File node reads the disk at most once; the first read fills the
\* cache with the file's bytes, the cache never changes afterwards, and a
\* call of Contents returns the cache.
C6_ContentsReadsOnce ==
    /\ [](\A n \in Ids : reads[n] <= 1 /\ (nodes[n].content # None => reads[n] = 1))
    /\ [][\A n \in Ids :
             /\ nodes[n].content # None =>
                   (nodes'[n].content = nodes[n].content /\ reads'[n] = reads[n])
             /\ (nodes[n].content = None /\ nodes'[n].content # None) =>
                   (nodes'[n].content = Some(disk[nodes[n].Path].bytes)
                    /\ reads'[n] = reads[n] + 1)]_vars
    /\ [](ret.node # 0 /\ ret.err = "none" =>
             (ret.val # None /\ ret.val = nodes[ret.node].content))

\* Contents has just returned the cached bytes of a file that was read once
\* and has other bytes on disk by now.
C6_Witness ==
    /\ ret.node # 0
    /\ ret.err = "none"
    /\ reads[ret.node] = 1
    /\ disk[nodes[ret.node].Path].kind = "file"
    /\ ret.val # Some(disk[nodes[ret.node].Path].bytes)

Visible(d) ==
    LET p == nodes[d].parent IN
    \/ d \in Range(tables[nodes[p].table])
    \/ d \in Range(tables[Map(nodes, d)])
    \/ \E i \in 1 .. Len(nodes[p].Nodes) : nodes[p].Nodes[i].Path = nodes[d].Path

Complete(d) ==
    LET p == nodes[d].parent IN
    /\ \A i \in 1 .. Len(stack) : stack[i].node # d
    /\ Proj(nodes[d].Nodes) = DiskTree(disk, nodes[d].Path)
    /\ { nodes[c].Path : c \in Range(tables[nodes[d].table]) }
          = { Join(nodes[d].Path, <<nm>>) : nm \in Range(ReadDir(disk, nodes[d].Path).names) }
    /\ \A i \in 1 .. Len(nodes[p].Nodes) :
          nodes[p].Nodes[i].Path = nodes[d].Path =>
              Proj(nodes[p].Nodes[i].Nodes) = DiskTree(disk, nodes[d].Path)

\* C7: during and after construction, a Directory that an index or a snapshot
\* of its parent shows has been scanned to the end: it is off the call stack
\* and its index and snapshot hold its whole subtree as the disk has it.
C7_VisibleDirectoriesAreComplete ==
    pc \in {"building", "built"} =>
        \A d \in Ids :
            (nodes[d].Type = Directory /\ nodes[d].parent # 0 /\ Visible(d)) => Complete(d)

\* Construction is still running and the root already shows a directory
\* whose snapshot holds a directory with an entry of its own.
C7_Witness ==
    /\ pc = "building"
    /\ \E d \in Ids :
          /\ nodes[d].Type = Directory
          /\ nodes[d].parent = 1
          /\ Visible(d)
          /\ \E i \in 1 .. Len(nodes[d].Nodes) :
                nodes[d].Nodes[i].Type = Directory /\ nodes[d].Nodes[i].Nodes # <<>>

\* C8: after New returns, Map() of every node is the root's map, which maps
\* the path of every node under the root to that node; an entry of it is
\* never overwritten.
C8_MapIsRootIndex ==
    /\ [](pc = "built" =>
             \A n \in Ids :
                 /\ Map(nodes, n) = Table(nodes, 1)
                 /\ DOMAIN tables[Map(nodes, n)] = { nodes[c].Path : c \in Ids \ {1} }
                 /\ \A c \in Ids \ {1} : tables[Map(nodes, n)][nodes[c].Path] = c)
    /\ [][(pc \in {"building", "built"}) =>
             \A k \in DOMAIN tables[1] :
                 (k \in DOMAIN tables'[1] /\ tables'[1][k] = tables[1][k])]_vars

\* The tree is built and Map(), called from a node two levels down, maps that
\* node's path to it.
C8_Witness ==
    /\ pc = "built"
    /\ \E c \in Ids :
          /\ nodes[c].depth >= 2
          /\ nodes[c].Path \in DOMAIN tables[Map(nodes, c)]
          /\ tables[Map(nodes, c)][nodes[c].Path] = c

TagOK(x) ==
    /\ x.Type \in {File, Directory, Symbolic}
    /\ x.Checksum # None <=> x.Type = File
    /\ disk[x.Path].kind = "link" => x.Type = Symbolic
    /\ x.Type = Symbolic =>
          (x.Checksum = None /\ x.Nodes = <<>> /\ tables[x.table] = EmptyTable)

\* C9: every live node and every snapshot copy has one of the three tags and
\* a digest exactly when it is a File; a symbolic link is tagged Symbolic and
\* has no digest and no children.
C9_TagsAndDigests ==
    \A n \in Ids :
        /\ TagOK(nodes[n])
        /\ \A s \in AllSnaps(nodes[n].Nodes) : TagOK(s)
        /\ nodes[n].Type = Symbolic => Children(n) = {}

\* The tree is built and holds a File and a Symbolic node whose link points
\* to a directory, both also as snapshot copies.
C9_Witness ==
    /\ pc = "built"
    /\ \E s, f \in AllSnaps(nodes[1].Nodes) :
          /\ s.Type = Symbolic
          /\ disk[disk[s.Path].to].kind = "dir"
          /\ f.Type = File
          /\ f.Checksum # None

Unlistable(d) ==
    nodes[d].Type = Directory /\ ~ReadDir(disk, nodes[d].Path).ok

\* C10: a listing failure does not panic and leaves the caller's loop as it
\* was; when the build returns, a subdirectory that could not be listed is in
\* its parent's index, the root's index and the parent's snapshot as a
\* Directory without children, and every entry of the parent is registered.
C10_ListingFailureIsTolerated ==
    /\ [][(pc = "building" /\ Top.phase = "list"
              /\ ~ReadDir(disk, nodes[Top.node].Path).ok) =>
             /\ pc' # "panicked"
             /\ Len(stack) > 1 =>
                   /\ Len(stack') = Len(stack) - 1
                   /\ (stack'[Len(stack')].todo = stack[Len(stack) - 1].todo)]_vars
    /\ [](pc = "built" =>
             \A d \in Ids \ {1} :
                 Unlistable(d) =>
                     LET p == nodes[d].parent IN
                     /\ d \in Range(tables[Table(nodes, p)])
                     /\ d \in Range(tables[Map(nodes, d)])
                     /\ \E i \in 1 .. Len(nodes[p].Nodes) :
                           /\ nodes[p].Nodes[i].Path = nodes[d].Path
                           /\ nodes[p].Nodes[i].Type = Directory
                           /\ nodes[p].Nodes[i].Nodes = <<>>
                     /\ nodes[d].Nodes = <<>>
                     /\ tables[Table(nodes, d)] = EmptyTable
                     /\ Children(d) = {}
                     /\ \A nm \in Range(ReadDir(disk, nodes[p].Path).names) :
                           \E c \in Range(tables[Table(nodes, p)]) :
                               /\ nodes[c].parent = p
                               /\ nodes[c].Path = Join(nodes[p].Path, <<nm>>))

\* The tree is built; a subdirectory that holds an entry on disk could not be
\* listed, and an entry listed after it is registered in the same parent.
C10_Witness ==
    /\ pc = "built"
    /\ \E d \in Ids \ {1} :
          /\ Unlistable(d)
          /\ \E q \in SrcPaths : Dir(q) = nodes[d].Path /\ disk[q].kind # "none"
          /\ \E c \in Range(tables[Table(nodes, nodes[d].parent)]) :
                c > d /\ nodes[c].parent = nodes[d].parent

====
